---------------------------- MODULE Spec2Model ----------------------------
(***************************************************************************)
(* A model of react-native-queue: the Queue run loop (Queue.js), the       *)
(* MemoryStorage job store it runs on, and the worker registry.            *)
(*                                                                         *)
(* Every action is the code that runs between two awaits of the source:    *)
(* JavaScript runs such a segment to completion, and other continuations   *)
(* and API calls may run between two segments.  Continuations run in the   *)
(* order they were queued: microtasks is the queue of the loops that wait  *)
(* for a promise that is already resolved (the result of findNextJobs, the *)
(* result of getConcurrentJobs).  The handlers settle when they like, but  *)
(* no sooner than one turn of the queue after their dispatch.              *)
(*                                                                         *)
(* MemoryStorage keeps the job objects themselves (no copy): the object a  *)
(* loop holds in its batch is the object the store holds.  heap is the     *)
(* job objects in the order createJob made them, and a job is named by its *)
(* index in heap.  items is memoryStorage.items: the stored objects in the *)
(* order of their keys, one object per key; the key of an object is its id *)
(* field, a fresh uuid unless the payload of createJob carried an id.      *)
(***************************************************************************)
EXTENDS Integers, Sequences, FiniteSets, TLC

(***************************************************************************)
(* Bounds of the model.                                                    *)
(***************************************************************************)
MaxJobs == 2        \* jobs ever created (uuids handed out)
MaxLoops == 2       \* start() invocations that may be running at once
MaxTime == 1        \* the clock runs 0..MaxTime
MaxFlushes == 1     \* flushQueue() calls that may be waiting at a time

(***************************************************************************)
(* Program constants.                                                      *)
(***************************************************************************)
NullDate == -1             \* failed: null
DefaultTimeout == 25000
DefaultAttempts == 1
DefaultPriority == 0
DefaultConcurrency == 1
LifespanBuffer == 499

Names == {"a", "b"}
Loops == 1..MaxLoops

\* The options object {} of a call that passes none.
EmptyObj == [k \in {} |-> 0]

\* Job options the callers of the model pass to createJob.
JobOptions ==
  { EmptyObj, [attempts |-> 2, priority |-> 5] }

Has(o, k) == k \in DOMAIN o

VARIABLES
  status,                     \* Queue.status
  executeFailedJobsOnStart,   \* Queue.executeFailedJobsOnStart
  workers,                    \* Worker.workers: name -> concurrency, 0 = none
  heap,                       \* the job objects
  items,                      \* memoryStorage.items: the stored objects, in
                              \* the order of their keys
  resetting,                  \* the objects a resetFailedJobs() call has read
                              \* and not yet cleared
  loops,                      \* the start() invocations, by slot
  microtasks,                 \* loops resuming from a resolved await, in order
  now,                        \* Date.now()
  ret,                        \* the last step, if a call of start() or a
                              \* createJob() that threw: what came of it
  events,                     \* the last step: the calls it made, in order
  runs,                       \* history: handler invocations per job
  fired,                      \* history: lifecycle callbacks fired per job
  succeeded,                  \* history: jobs whose handler completed
  resetIds,                   \* history: jobs resetFailedJobs has cleared
  flushing,                   \* the flushQueue() calls that have read the store
                              \* and not yet deleted
  kv,                         \* memoryStorage.items as its callers other than
                              \* the job store see it: key/value pairs, in the
                              \* order of the keys
  db                          \* CachedAsyncStorage: this.db, the array of the
                              \* job records

vars == << status, executeFailedJobsOnStart, workers, heap, items, resetting,
           loops, microtasks, now, ret, events, runs, fired, succeeded,
           resetIds, flushing, kv, db >>

Ids == 1..Len(heap)

Range(s) == { s[i] : i \in 1..Len(s) }

Min(a, b) == IF a < b THEN a ELSE b

(***************************************************************************)
(* memoryStorage: the key/value primitives.                                *)
(***************************************************************************)

\* MemoryStorage._getKey(job)
GetKey(h, id) == h[id].id

\* The keys of the stored objects.
Keys(h, its) == { GetKey(h, its[i]) : i \in 1..Len(its) }

\* memoryStorage.save(key, value): a new key goes last, a known key stays
\* where it is and gets the value.
StorageSave(h, its, id) ==
  IF GetKey(h, id) \in Keys(h, its)
    THEN [i \in 1..Len(its) |->
            IF GetKey(h, its[i]) = GetKey(h, id) THEN id ELSE its[i]]
    ELSE Append(its, id)

\* memoryStorage.save(pairs)
RECURSIVE StorageSaveAll(_, _, _)
StorageSaveAll(h, its, ids) ==
  IF ids = << >> THEN its
  ELSE StorageSaveAll(h, StorageSave(h, its, Head(ids)), Tail(ids))

\* memoryStorage.delete(key | keys)
StorageDelete(h, its, gone) ==
  LET Keep(id) == GetKey(h, id) \notin gone IN SelectSeq(its, Keep)

(***************************************************************************)
(* MemoryStorage: the job store.                                           *)
(***************************************************************************)

\* A filter that lets active jobs through.
EligibleThoughActive(j, hasBound, bound) ==
  IF hasBound
    THEN j.failed = NullDate /\ j.timeout > 0 /\ j.timeout < bound
    ELSE j.failed = NullDate

\* The filter of findNextJobs; hasBound is timeoutUpperBound !== undefined.
Eligible(j, hasBound, bound) ==
  IF hasBound
    THEN ~j.active /\ j.failed = NullDate /\ j.timeout > 0 /\ j.timeout < bound
    ELSE ~j.active /\ j.failed = NullDate

\* The order with the newest job first among those of a priority.
BeforeNewestFirst(x, y) ==
  \/ x.priority > y.priority
  \/ x.priority = y.priority /\ x.created > y.created

\* _.orderBy(jobs, ['priority', 'created'], ['desc', 'asc']): x sorts before y.
Before(x, y) ==
  \/ x.priority > y.priority
  \/ x.priority = y.priority /\ x.created < y.created

\* A stable insertion: id goes after every job that does not sort after it.
RECURSIVE InsertSorted(_, _, _)
InsertSorted(h, sorted, id) ==
  IF sorted = << >> THEN << id >>
  ELSE IF Before(h[id], h[Head(sorted)])
         THEN << id >> \o sorted
         ELSE << Head(sorted) >> \o InsertSorted(h, Tail(sorted), id)

RECURSIVE OrderBy(_, _, _)
OrderBy(h, sorted, rest) ==
  IF rest = << >> THEN sorted
  ELSE OrderBy(h, InsertSorted(h, sorted, Head(rest)), Tail(rest))

\* MemoryStorage.findNextJobs(timeoutUpperBound)
FindNextJobs(h, its, hasBound, bound) ==
  LET Ok(id) == Eligible(h[id], hasBound, bound)
  IN  OrderBy(h, << >>, SelectSeq(its, Ok))

\* MemoryStorage.markActive(jobs): the objects
MarkActiveHeap(h, ids) ==
  [id \in DOMAIN h |-> IF id \in Range(ids) THEN [h[id] EXCEPT !.active = TRUE]
                       ELSE h[id]]

\* MemoryStorage.resetFailedJobs(): the objects read by objects()
ResetFailedHeap(h, its) ==
  [id \in DOMAIN h |-> IF id \in Range(its) THEN [h[id] EXCEPT !.failed = NullDate]
                       ELSE h[id]]

\* deleteByName without its filter on the name.
DeleteByNameUnfiltered(h, its, jobs, name) == StorageDelete(h, its, Keys(h, jobs))

\* MemoryStorage.deleteByName(jobName), resumed with the objects it read
DeleteByName(h, its, jobs, name) ==
  StorageDelete(h, its, { GetKey(h, id) :
                            id \in { x \in Range(jobs) : h[x].name = name } })

\* MemoryStorage.deleteAll(), resumed with the keys it read
DeleteAll(h, its, jobs) == StorageDelete(h, its, Keys(h, jobs))

(***************************************************************************)
(* Worker: the registry.                                                   *)
(***************************************************************************)

\* Worker.getConcurrency(jobName)
GetConcurrency(w, name) ==
  IF w[name] = 0 THEN DefaultConcurrency ELSE w[name]


\* Worker.executeJob(job): how the handler's promise may settle.  A timeout
\* needs a timer, which a job with timeout 0 has not.
Outcomes(j) ==
  IF j.timeout > 0 THEN {"success", "error", "timeout"} ELSE {"success", "error"}

(***************************************************************************)
(* Queue                                                                   *)
(***************************************************************************)

IdleLoop ==
  [ pc |-> "idle", hasLifespan |-> FALSE, lifespan |-> 0, startTime |-> 0,
    remaining |-> 0, jobs |-> << >>, batch |-> << >>, pending |-> {},
    blockers |-> {}, stopped |-> FALSE, afterReset |-> FALSE,
    handled |-> {} ]

FreeSlots == { l \in Loops : loops[l].pc = "idle" }

FirstFree == CHOOSE l \in FreeSlots : \A m \in FreeSlots : l <= m

\* A turn of the microtask queue: loop l has resumed, so the handlers that
\* were dispatched while l was queued may settle as far as l is concerned.
Resumed(lps, l) ==
  [m \in Loops |-> [lps[m] EXCEPT !.blockers = @ \ {l}]]

\* A start() without the early return.
AlreadyRunningIgnored(st) == FALSE

\* start(): "If queue is already running, don't fire up concurrent loop."
AlreadyRunning(st) == st = "active"

\* start(): lifespanRemaining = lifespan - (Date.now() - startTime)
LifespanRemaining(lp, t) == lp.lifespan - (t - lp.startTime)

\* A bound that admits a timeout 499 below the remaining lifespan.
TimeoutUpperBoundOneMore(remaining) == remaining - LifespanBuffer + 1

\* getConcurrentJobs(): timeoutUpperBound = queueLifespanRemaining - 499
TimeoutUpperBound(remaining) == remaining - LifespanBuffer

\* start() up to its first await: the loop is entered and the first
\* getConcurrentJobs() call waits for findNextJobs.
EnterLoop(hasL, L) ==
  [ IdleLoop EXCEPT !.pc = "find", !.hasLifespan = hasL,
                    !.lifespan = IF hasL THEN L ELSE 0,
                    !.startTime = now,
                    !.remaining = IF hasL THEN L ELSE 0 ]

\* start(lifespan)
Start(hasL, L) ==
  /\ IF AlreadyRunning(status)
       THEN /\ ret' = "false"
            /\ UNCHANGED << status, loops >>
       ELSE /\ FreeSlots # {}
            /\ status' = "active"
            /\ loops' = [loops EXCEPT ![FirstFree] = EnterLoop(hasL, L)]
            /\ ret' = "started"
  /\ events' = << >>
  /\ UNCHANGED << executeFailedJobsOnStart, workers, heap, items, resetting,
                  microtasks, now, runs, fired, succeeded, resetIds,
                  flushing, kv, db >>

\* stop()
Stop ==
  /\ status' = "inactive"
  /\ loops' = [l \in Loops |->
                 IF loops[l].pc = "wait" /\ loops[l].pending # {}
                   THEN [loops[l] EXCEPT !.stopped = TRUE]
                   ELSE loops[l]]
  /\ ret' = "ok"
  /\ events' = << >>
  /\ UNCHANGED << executeFailedJobsOnStart, workers, heap, items, resetting,
                  microtasks, now, runs, fired, succeeded, resetIds,
                  flushing, kv, db >>

\* The check of the name without the check of the options.
InvalidJobNameOnly(name, options) == name = ""

\* createJob(): the two argument checks
InvalidJob(name, options) ==
  \/ name = ""
  \/ Has(options, "timeout") /\ options.timeout < 0
  \/ Has(options, "attempts") /\ options.attempts < 0

\* The record with the timeout defaulted the way attempts and priority are.
NewJobTimeoutOrDefault(name, key, options) ==
  [ id |-> key,
    name |-> name,
    attempts |-> IF Has(options, "attempts") /\ options.attempts # 0
                   THEN options.attempts ELSE DefaultAttempts,
    priority |-> IF Has(options, "priority") /\ options.priority # 0
                   THEN options.priority ELSE DefaultPriority,
    active |-> FALSE,
    timeout |-> IF Has(options, "timeout") /\ options.timeout # 0
                  THEN options.timeout ELSE DefaultTimeout,
    created |-> now,
    failed |-> NullDate,
    failedAttempts |-> 0,
    errors |-> << >> ]

\* createJob(): the record handed to jobDB.create
NewJob(name, key, options) ==
  [ id |-> key,
    name |-> name,
    attempts |-> IF Has(options, "attempts") /\ options.attempts # 0
                   THEN options.attempts ELSE DefaultAttempts,
    priority |-> IF Has(options, "priority") /\ options.priority # 0
                   THEN options.priority ELSE DefaultPriority,
    active |-> FALSE,
    timeout |-> IF Has(options, "timeout") /\ options.timeout >= 0
                  THEN options.timeout ELSE DefaultTimeout,
    created |-> now,
    failed |-> NullDate,
    failedAttempts |-> 0,
    errors |-> << >> ]

\* No lifecycle callback has fired for a job.
NoneFired == [ onSuccess |-> 0, onFailure |-> 0, onFailed |-> 0, onComplete |-> 0 ]

\* The call an API step records in events.
Called(ev, arg) == << [ev |-> ev, arg |-> arg] >>

\* createJob(name, payload, options, startQueue); payloadId is payload.id, 0 if
\* the payload has none (a uuid is taken then).  The call runs up to its await
\* of jobDB.create: resetFailedJobs() has been called and waits for the objects
\* it asked for (it had the keys before the new job was saved, and gets what
\* is stored under them after), the job is saved.  The rest of createJob, the
\* start() of an inactive queue, is taken in the same step: a later start is
\* a call of start().
CreateJob(name, payloadId, options, startQueue) ==
  /\ events' = Called("createJob",
                      [name |-> name, id |-> payloadId, options |-> options])
  /\ IF InvalidJob(name, options)
       THEN /\ ret' = "throw"
            /\ UNCHANGED << status, executeFailedJobsOnStart, workers, heap,
                            items, resetting, loops, microtasks, now, runs,
                            fired, succeeded, resetIds,
                  flushing, kv, db >>
       ELSE /\ Len(heap) < MaxJobs
            /\ payloadId = 0 \/ payloadId \in { GetKey(heap, x) : x \in Ids }
            /\ LET job == Len(heap) + 1
                   key == IF payloadId = 0 THEN job ELSE payloadId
                   KeyWasStored(x) == GetKey(heap', x) \in Keys(heap, items)
               IN  /\ heap' = Append(heap, NewJob(name, key, options))
                   /\ items' = StorageSave(heap', items, job)
                   /\ resetting' = IF executeFailedJobsOnStart
                                     THEN SelectSeq(items', KeyWasStored)
                                     ELSE resetting
            /\ runs' = Append(runs, 0)
            /\ fired' = Append(fired, NoneFired)
            /\ executeFailedJobsOnStart' = FALSE
            /\ IF startQueue /\ status = "inactive"
                 THEN /\ FreeSlots # {}
                      /\ status' = "active"
                      /\ loops' = [loops EXCEPT ![FirstFree] =
                           [EnterLoop(FALSE, 0) EXCEPT
                              !.afterReset = executeFailedJobsOnStart]]
                 ELSE UNCHANGED << status, loops >>
            /\ ret' = "ok"
            /\ UNCHANGED << workers, microtasks, now, succeeded, resetIds,
                  flushing, kv, db >>

\* resetFailedJobs() resumed with the objects: failed is cleared on each and
\* all are saved.
ResetFailedJobs ==
  /\ resetting # << >>
  /\ heap' = ResetFailedHeap(heap, resetting)
  /\ items' = StorageSaveAll(heap, items, resetting)
  /\ resetIds' = resetIds \cup Range(resetting)
  /\ resetting' = << >>
  /\ ret' = "ok"
  /\ events' = Called("resetFailedJobs", 0)
  /\ UNCHANGED << status, executeFailedJobsOnStart, workers, loops, microtasks,
                  now, runs, fired, succeeded,
                  flushing, kv, db >>

\* findNextJobs() returns to getConcurrentJobs(): the store is read and the
\* continuation of getConcurrentJobs is queued.  The resetFailedJobs() of the
\* createJob() that started the loop has asked for its objects earlier and
\* resumes earlier.
FindNext(l) ==
  /\ loops[l].pc = "find"
  /\ loops[l].afterReset => resetting = << >>
  /\ LET lp == loops[l]
         bound == TimeoutUpperBound(lp.remaining)
     IN  loops' = [loops EXCEPT ![l] =
           [lp EXCEPT !.pc = "mark",
                      !.afterReset = FALSE,
                      !.jobs = FindNextJobs(heap, items, lp.hasLifespan, bound)]]
  /\ microtasks' = Append(microtasks, l)
  /\ ret' = "ok"
  /\ events' = << >>
  /\ UNCHANGED << status, executeFailedJobsOnStart, workers, heap, items,
                  resetting, now, runs, fired, succeeded, resetIds,
                  flushing, kv, db >>

\* The related jobs without the cut to the worker's concurrency.
ConcurrentJobsUncut(h, jobs, concurrency) ==
  IF jobs = << >> THEN << >>
  ELSE LET Related(id) == h[id].name = h[Head(jobs)].name
       IN  SelectSeq(jobs, Related)

\* The related jobs cut to the concurrency from the end of the list.
ConcurrentJobsFromEnd(h, jobs, concurrency) ==
  IF jobs = << >> THEN << >>
  ELSE LET Related(id) == h[id].name = h[Head(jobs)].name
           allRelatedJobs == SelectSeq(jobs, Related)
           n == Len(allRelatedJobs)
       IN  SubSeq(allRelatedJobs, n - Min(concurrency, n) + 1, n)

\* getConcurrentJobs(): the jobs of the first job's name, cut to its concurrency
ConcurrentJobs(h, jobs, concurrency) ==
  IF jobs = << >> THEN << >>
  ELSE LET Related(id) == h[id].name = h[Head(jobs)].name
           allRelatedJobs == SelectSeq(jobs, Related)
       IN  SubSeq(allRelatedJobs, 1, Min(concurrency, Len(allRelatedJobs)))

\* getConcurrentJobs() from the await of findNextJobs to its return: the batch
\* is marked active and the continuation of start() is queued.
Mark(l) ==
  /\ microtasks # << >> /\ Head(microtasks) = l
  /\ loops[l].pc = "mark"
  /\ LET lp == loops[l]
         concurrency ==
           IF lp.jobs = << >> THEN 0
           ELSE GetConcurrency(workers, heap[Head(lp.jobs)].name)
         concurrentJobs == ConcurrentJobs(heap, lp.jobs, concurrency)
     IN  /\ heap' = MarkActiveHeap(heap, concurrentJobs)
         /\ items' = StorageSaveAll(heap, items, concurrentJobs)
         /\ loops' = [Resumed(loops, l) EXCEPT ![l] =
              [lp EXCEPT !.pc = "dispatch", !.jobs = << >>,
                         !.batch = concurrentJobs]]
  /\ microtasks' = Append(Tail(microtasks), l)
  /\ ret' = "ok"
  /\ events' = << >>
  /\ UNCHANGED << status, executeFailedJobsOnStart, workers, resetting, now,
                  runs, fired, succeeded, resetIds,
                  flushing, kv, db >>

\* processJob() up to its await: onStart, then executeJob(job)
RECURSIVE DispatchEvents(_)
DispatchEvents(batch) ==
  IF batch = << >> THEN << >>
  ELSE Called("onStart", Head(batch)) \o Called("executeJob", Head(batch))
         \o DispatchEvents(Tail(batch))

\* Worker.executeJob(job): the jobs of a batch whose name has a worker, whose
\* handler is invoked; for the others the call throws.
Handled(w, h, batch) == { id \in Range(batch) : w[h[id].name] # 0 }

\* start() resumed with the batch: processJob(job) for every job of it, each
\* up to its await of executeJob (the handler is invoked).
Dispatch(l) ==
  /\ microtasks # << >> /\ Head(microtasks) = l
  /\ loops[l].pc = "dispatch"
  /\ LET lp == loops[l]
     IN  /\ loops' = [Resumed(loops, l) EXCEPT ![l] =
              [lp EXCEPT !.pc = "wait", !.pending = Range(lp.batch),
                         !.blockers = Range(Tail(microtasks)),
                         !.handled = Handled(workers, heap, lp.batch)]]
         /\ runs' = [id \in DOMAIN runs |->
                       IF id \in Range(lp.batch) THEN runs[id] + 1 ELSE runs[id]]
         /\ events' = DispatchEvents(lp.batch)
  /\ microtasks' = Tail(microtasks)
  /\ ret' = "ok"
  /\ UNCHANGED << status, executeFailedJobsOnStart, workers, heap, items,
                  resetting, now, fired, succeeded, resetIds,
                  flushing, kv, db >>

\* processJob(): the try block after executeJob, in the other order
SuccessEventsCallbacksFirst(id) ==
  Called("onSuccess", id) \o Called("onComplete", id) \o Called("delete", id)

\* processJob(): the try block after executeJob
SuccessEvents(id) ==
  Called("delete", id) \o Called("onSuccess", id) \o Called("onComplete", id)

\* The callbacks among events e, counted into f.
RECURSIVE Count(_, _)
Count(f, e) ==
  IF e = << >> THEN f
  ELSE LET ev == Head(e).ev
           id == Head(e).arg
       IN  IF ev \in DOMAIN NoneFired
             THEN Count([f EXCEPT ![id] = [@ EXCEPT ![ev] = @ + 1]], Tail(e))
             ELSE Count(f, Tail(e))

\* processJob(): the handler completed; the job is deleted.
JobSucceeds(l, id) ==
  /\ loops[l].pc = "wait"
  /\ loops[l].blockers = {}
  /\ id \in loops[l].pending
  /\ id \in loops[l].handled
  /\ items' = StorageDelete(heap, items, {GetKey(heap, id)})
  /\ loops' = [loops EXCEPT ![l].pending = @ \ {id}]
  /\ succeeded' = succeeded \cup {id}
  /\ events' = SuccessEvents(id)
  /\ fired' = Count(fired, events')
  /\ ret' = "ok"
  /\ UNCHANGED << status, executeFailedJobsOnStart, workers, heap, resetting,
                  microtasks, now, runs, resetIds,
                  flushing, kv, db >>

\* processJob(): the catch block's bookkeeping, merged into the job object
FailedJob(j, message, t) ==
  LET failedAttempts == IF j.failedAttempts = 0 THEN 1 ELSE j.failedAttempts + 1
      merged == [j EXCEPT !.failedAttempts = failedAttempts,
                          !.errors = Append(j.errors, message),
                          !.active = FALSE]
  IN  IF failedAttempts >= j.attempts
        THEN [merged EXCEPT !.failed = t]
        ELSE merged

\* processJob(): jobData.failedAttempts >= jobData.attempts
AttemptsExhausted(j) == j.failedAttempts >= j.attempts

\* processJob(): the catch block; j is the job with the bookkeeping merged
FailureEvents(id, j) ==
  Called("merge", id) \o Called("onFailure", id)
    \o (IF AttemptsExhausted(j)
          THEN Called("onFailed", id) \o Called("onComplete", id)
          ELSE << >>)

\* processJob(): the handler threw or timed out; the job is merged back.
JobFails(l, id, message) ==
  /\ loops[l].pc = "wait"
  /\ loops[l].blockers = {}
  /\ id \in loops[l].pending
  /\ message \in Outcomes(heap[id]) \ {"success"}
  /\ heap' = [heap EXCEPT ![id] = FailedJob(heap[id], message, now)]
  /\ items' = StorageSave(heap, items, id)
  /\ loops' = [loops EXCEPT ![l].pending = @ \ {id}]
  /\ events' = FailureEvents(id, heap'[id])
  /\ fired' = Count(fired, events')
  /\ ret' = "ok"
  /\ UNCHANGED << status, executeFailedJobsOnStart, workers, resetting,
                  microtasks, now, runs, succeeded, resetIds,
                  flushing, kv, db >>

\* start(): while (this.status === 'active' && concurrentJobs.length)
LoopAgain(st, batch) == st = "active" /\ Len(batch) > 0

\* A wait that ends with the first job that settles.
FirstSettled(lp) == lp.batch = << >> \/ lp.pending # Range(lp.batch)

\* start(): await Promise.all(processingJobs.map(promiseReflect))
AllSettled(lp) == lp.pending = {}

\* start() resumed after Promise.all: the loop condition, then either the next
\* getConcurrentJobs() call or the exit.
BatchSettled(l) ==
  /\ loops[l].pc = "wait"
  /\ AllSettled(loops[l])
  /\ LET lp == loops[l]
     IN  IF LoopAgain(status, lp.batch)
           THEN /\ loops' = [loops EXCEPT ![l] =
                     [IdleLoop EXCEPT !.pc = "find",
                                      !.hasLifespan = lp.hasLifespan,
                                      !.lifespan = lp.lifespan,
                                      !.startTime = lp.startTime,
                                      !.stopped = lp.stopped,
                                      !.remaining =
                                         IF lp.hasLifespan
                                           THEN LifespanRemaining(lp, now) ELSE 0]]
                /\ UNCHANGED status
           ELSE /\ loops' = [loops EXCEPT ![l] = IdleLoop]
                /\ status' = "inactive"
  /\ ret' = "ok"
  /\ events' = << >>
  /\ UNCHANGED << executeFailedJobsOnStart, workers, heap, items, resetting,
                  microtasks, now, runs, fired, succeeded, resetIds,
                  flushing, kv, db >>

\* flushQueue(jobName); "" is a call without a name.  The call runs up to
\* the await of the store's keys (deleteAll) or objects (deleteByName), which
\* are those of the time of the call.
FlushQueue(name) ==
  /\ Len(flushing) < MaxFlushes
  /\ flushing' = Append(flushing, [name |-> name, jobs |-> items])
  /\ ret' = "ok"
  /\ events' = Called("flushQueue", name)
  /\ UNCHANGED << status, executeFailedJobsOnStart, workers, heap, items,
                  resetting, loops, microtasks, now, runs, fired, succeeded,
                  resetIds, kv, db >>

\* A flushQueue() call resumed: it deletes, of what it read, the jobs of its
\* name, or all.
FlushDelete(i) ==
  /\ i \in 1..Len(flushing)
  /\ LET f == flushing[i]
     IN  /\ items' = IF f.name # "" THEN DeleteByName(heap, items, f.jobs, f.name)
                     ELSE DeleteAll(heap, items, f.jobs)
         /\ events' = Called("flushed", f.name)
  /\ flushing' = SubSeq(flushing, 1, i - 1) \o SubSeq(flushing, i + 1, Len(flushing))
  /\ ret' = "ok"
  /\ UNCHANGED << status, executeFailedJobsOnStart, workers, heap, resetting,
                  loops, microtasks, now, runs, fired, succeeded, resetIds, kv, db >>

\* addWorker(jobName, worker, options): the name has a worker of the given
\* concurrency, in place of the one it had.
AddWorker(name, concurrency) ==
  /\ workers' = [workers EXCEPT ![name] = concurrency]
  /\ ret' = "ok"
  /\ events' = Called("addWorker", name)
  /\ UNCHANGED << status, executeFailedJobsOnStart, heap, items, resetting,
                  loops, microtasks, now, runs, fired, succeeded, resetIds,
                  flushing, kv, db >>

\* removeWorker(jobName): the name has no worker.
RemoveWorker(name) ==
  /\ workers' = [workers EXCEPT ![name] = 0]
  /\ ret' = "ok"
  /\ events' = Called("removeWorker", name)
  /\ UNCHANGED << status, executeFailedJobsOnStart, heap, items, resetting,
                  loops, microtasks, now, runs, fired, succeeded, resetIds,
                  flushing, kv, db >>

\* The clock advances.
Tick ==
  /\ now < MaxTime
  /\ now' = now + 1
  /\ ret' = "ok"
  /\ events' = << >>
  /\ UNCHANGED << status, executeFailedJobsOnStart, workers, heap, items,
                  resetting, loops, microtasks, runs, fired, succeeded,
                  resetIds,
                  flushing, kv, db >>

(***************************************************************************)
(* The state after construction.  memoryStorage is one object per process, *)
(* so a queue built on it finds what an earlier queue left there: here     *)
(* nothing, or one job that failed its only attempt.                       *)
(***************************************************************************)
LeftoverJob ==
  [ id |-> 1, name |-> "a", attempts |-> 1, priority |-> 0, active |-> FALSE,
    timeout |-> DefaultTimeout, created |-> 0, failed |-> 0,
    failedAttempts |-> 1, errors |-> << "error" >> ]

LeftoverFired ==
  [ onSuccess |-> 0, onFailure |-> 1, onFailed |-> 1, onComplete |-> 1 ]

Init ==
  /\ status = "inactive"
  /\ executeFailedJobsOnStart \in BOOLEAN
  /\ workers = [n \in Names |-> IF n = "a" THEN 2 ELSE 1]
  /\ \/ heap = << >> /\ items = << >> /\ runs = << >> /\ fired = << >>
     \/ /\ heap = << LeftoverJob >> /\ items = << 1 >>
        /\ runs = << 1 >> /\ fired = << LeftoverFired >>
  /\ resetting = << >>
  /\ loops = [l \in Loops |-> IdleLoop]
  /\ microtasks = << >>
  /\ now = 0
  /\ ret = "ok"
  /\ events = << >>
  /\ succeeded = {}
  /\ resetIds = {}
  /\ flushing = << >>
  /\ kv = << >>
  /\ db = << >>

\* The loop's own steps and the handlers' settlements.
Run ==
  \/ \E l \in Loops : FindNext(l)
  \/ \E l \in Loops : Mark(l)
  \/ \E l \in Loops : Dispatch(l)
  \/ \E l \in Loops, id \in Ids : JobSucceeds(l, id)
  \/ \E l \in Loops, id \in Ids : JobFails(l, id, "error")
  \/ \E l \in Loops : BatchSettled(l)

Next ==
  \/ \E name \in Names, options \in JobOptions, startQueue \in BOOLEAN :
       CreateJob(name, 0, options, startQueue)
  \/ ResetFailedJobs
  \/ status = "inactive" /\ Start(FALSE, 0)
  \/ Stop
  \/ Run

Spec == Init /\ [][Next]_vars

(***************************************************************************)
(* The claims.                                                             *)
(***************************************************************************)

Running == { l \in Loops : loops[l].pc # "idle" }

Stored == Range(items)

\* The jobs loop l has got from getConcurrentJobs and not seen settle.
Selected(l) ==
  IF loops[l].pc = "dispatch" THEN Range(loops[l].batch) ELSE loops[l].pending

\* C1: at most one run loop is executing at a time, and no loop has selected a
\* batch while a task of another loop's batch is still unsettled.
C1_OneLoopNoOverlap ==
  /\ Cardinality(Running) <= 1
  /\ \A l1, l2 \in Loops :
       l1 # l2 /\ loops[l1].pending # {} => Selected(l2) = {}

\* C2: no job is in flight in two processJob executions at once.
C2_NoJobTwiceInFlight ==
  \A l1, l2 \in Loops :
    l1 # l2 => loops[l1].pending \cap loops[l2].pending = {}

\* Everything of the state but the account of the last step.
stateVars ==
  << status, executeFailedJobsOnStart, workers, heap, items, resetting, loops,
     microtasks, now, runs, fired, succeeded, resetIds, flushing, kv, db >>

\* The same program with start() called at any time.
NextStart ==
  \/ Next
  \/ Start(FALSE, 0)

SpecStart == Init /\ [][NextStart]_vars

\* C3: a start() call made while the status is 'active' returns false and
\* leaves the status, the loops, the store and everything else as they were.
C3_StartWhileActiveReturnsFalse ==
  [][ (status = "active" /\ ret' \in {"false", "started"})
        => (ret' = "false" /\ UNCHANGED stateVars) ]_vars

\* start() has returned false while a batch was being processed.
C3_Witness ==
  /\ ret = "false"
  /\ status = "active"
  /\ \E l \in Loops : loops[l].pending # {}

\* Loop l's findNextJobs reads the store in this step.
ReadStep(l) == loops[l].pc = "find" /\ loops'[l].pc = "mark"

\* Loop l's getConcurrentJobs cuts and marks its batch in this step.
SelectStep(l) == loops[l].pc = "mark" /\ loops'[l].pc = "dispatch"

\* Loop l hands its batch to processJob in this step.
DispatchStep(l) == loops[l].pc = "dispatch" /\ loops'[l].pc = "wait"

NextOrder ==
  \/ \E name \in Names, options \in JobOptions, startQueue \in BOOLEAN :
       CreateJob(name, 0, options, startQueue)
  \/ ResetFailedJobs
  \/ status = "inactive" /\ Start(FALSE, 0)
  \/ Run
  \/ Tick

SpecOrder == Init /\ [][NextOrder]_vars

\* Job id may be taken by loop l as the store stands.
EligibleFor(l, id) ==
  /\ id \in Stored
  /\ ~heap[id].active
  /\ heap[id].failed = NullDate
  /\ loops[l].hasLifespan =>
       heap[id].timeout > 0 /\ heap[id].timeout <= loops[l].remaining - 500

\* Job x comes before job y: higher priority, or the same and created earlier.
Precedes(x, y) ==
  \/ heap[x].priority > heap[y].priority
  \/ heap[x].priority = heap[y].priority /\ heap[x].created < heap[y].created

\* C5: a batch is empty only if the store held no eligible job when it was
\* read; otherwise its jobs all have the name of an eligible job that no other
\* eligible job precedes, and they are at most concurrency(name).
C5_BatchOfFirstEligibleName ==
  [][ \A l \in Loops :
        /\ ReadStep(l) =>
             LET E == { id \in Ids : EligibleFor(l, id) }
                 jobs == loops'[l].jobs
             IN  /\ jobs = << >> <=> E = {}
                 /\ jobs # << >> =>
                      /\ Head(jobs) \in E
                      /\ \A e \in E : ~Precedes(e, Head(jobs))
        /\ SelectStep(l) =>
             LET jobs == loops[l].jobs
                 batch == loops'[l].batch
             IN  /\ batch = << >> <=> jobs = << >>
                 /\ batch # << >> =>
                      /\ Len(batch) <= GetConcurrency(workers, heap[Head(jobs)].name)
                      /\ Cardinality(Range(batch)) = Len(batch)
                      /\ \A id \in Range(batch) :
                           heap[id].name = heap[Head(jobs)].name
    ]_vars

\* A batch of one job has been taken while the store held another eligible
\* job, which was created earlier and has the lower priority.
C5_Witness ==
  \E l \in Loops :
    /\ loops[l].pc = "dispatch"
    /\ Len(loops[l].batch) = 1
    /\ \E id \in Stored \ Range(loops[l].batch) :
         /\ ~heap[id].active /\ heap[id].failed = NullDate
         /\ heap[id].priority < heap[Head(loops[l].batch)].priority
         /\ heap[id].created < heap[Head(loops[l].batch)].created

\* C6: a job that has failed as often as it has attempts and was not reset has
\* its failure date set, and no job with a failure date is put into a batch or
\* handed to processJob.
C6_FailedJobsStayOut ==
  /\ [](\A id \in Ids :
          id \notin resetIds /\ heap[id].failedAttempts >= heap[id].attempts
            => heap[id].failed # NullDate)
  /\ [][ \A l \in Loops :
           /\ SelectStep(l) =>
                \A id \in Range(loops'[l].batch) : heap[id].failed = NullDate
           /\ DispatchStep(l) =>
                \A id \in loops'[l].pending : heap[id].failed = NullDate
       ]_vars

\* C7: a job that was not reset has its handler invoked at most as often as it
\* has attempts, and a failure that leaves attempts over stores the job not
\* active and without a failure date.
C7_RetryBound ==
  /\ [](\A id \in Ids : id \notin resetIds => runs[id] <= heap[id].attempts)
  /\ [][ \A id \in Ids :
           /\ heap'[id].failedAttempts > heap[id].failedAttempts
           /\ heap'[id].failedAttempts < heap'[id].attempts
           => /\ id \in Range(items')
              /\ ~heap'[id].active
              /\ heap'[id].failed = NullDate
       ]_vars

\* C8: a job whose handler has completed is not in the store, then or later.
C8_SucceededJobGone ==
  \A id \in succeeded : GetKey(heap, id) \notin Keys(heap, items)

\* The program started with a lifespan, and jobs with short timeouts.
Lifespans == {500, 501, 502}

TimeoutOptions == { [timeout |-> 0], [timeout |-> 1], [timeout |-> 2] }

NextLifespan ==
  \/ \E options \in TimeoutOptions : CreateJob("a", 0, options, FALSE)
  \/ ResetFailedJobs
  \/ \E L \in Lifespans : status = "inactive" /\ Start(TRUE, L)
  \/ Run
  \/ \E l \in Loops, id \in Ids : JobFails(l, id, "timeout")
  \/ Tick

SpecLifespan == Init /\ [][NextLifespan]_vars

\* C9: a loop started with a lifespan computes the remaining lifespan when it
\* asks for a batch, and the jobs it gets have a timeout T > 0 with
\* T <= remaining - 500.
C9_LifespanBound ==
  [][ \A l \in Loops :
        /\ loops[l].pc # "find" /\ loops'[l].pc = "find" /\ loops'[l].hasLifespan
             => loops'[l].remaining
                  = loops'[l].lifespan - (now - loops'[l].startTime)
        /\ ReadStep(l) /\ loops[l].hasLifespan =>
             \A id \in Range(loops'[l].jobs) :
               /\ heap[id].timeout > 0
               /\ heap[id].timeout <= loops[l].remaining - 500
        /\ SelectStep(l) => Range(loops'[l].batch) \subseteq Range(loops[l].jobs)
    ]_vars

\* A lifespan loop that started before the clock advanced has taken a job
\* whose timeout is exactly 500 below what remains, and left one behind.
C9_Witness ==
  \E l \in Loops :
    /\ loops[l].hasLifespan
    /\ loops[l].pc = "dispatch"
    /\ loops[l].batch # << >>
    /\ loops[l].remaining < loops[l].lifespan
    /\ \E id \in Range(loops[l].batch) :
         heap[id].timeout = loops[l].remaining - 500
    /\ \E id \in Stored \ Range(loops[l].batch) : ~heap[id].active

LoopStep(l) ==
  \/ FindNext(l)
  \/ Mark(l)
  \/ Dispatch(l)
  \/ \E id \in Ids : JobSucceeds(l, id) \/ JobFails(l, id, "error")
  \/ BatchSettled(l)

\* The program without stop(): every continuation that is queued runs and
\* every handler settles.
NextTerm ==
  \/ \E name \in Names, options \in JobOptions, startQueue \in BOOLEAN :
       CreateJob(name, 0, options, startQueue)
  \/ ResetFailedJobs
  \/ status = "inactive" /\ Start(FALSE, 0)
  \/ \E l \in Loops : LoopStep(l)

SpecTerm ==
  /\ Init /\ [][NextTerm]_vars
  /\ WF_vars(ResetFailedJobs)
  /\ \A l \in Loops : WF_vars(LoopStep(l))

\* Loop l leaves start() in this step.
ExitStep(l) == loops[l].pc = "wait" /\ loops'[l].pc = "idle"

\* Job id is done with: deleted after its handler completed, or stored as
\* failed and not active.
Outcome(id) ==
  \/ id \in succeeded /\ GetKey(heap, id) \notin Keys(heap, items)
  \/ id \in Stored /\ heap[id].failed # NullDate /\ ~heap[id].active

\* A loop that has started leaves start() in the end.
LoopsExit ==
  \A l \in Loops :
    (loops[l].pc # "idle") ~> (loops[l].pc = "idle" /\ status = "inactive")

\* C11: a loop that has started leaves start() in the end, with the status
\* 'inactive'; and when a loop without lifespan leaves because its batch was
\* empty, the queue not stopped and no failed job reset, every job ever created
\* is deleted after success or stored failed and not active.
C11_LoopExitsAllJobsDone ==
  /\ LoopsExit
  /\ [][ \A l \in Loops :
           /\ ExitStep(l)
           /\ loops[l].batch = << >> /\ ~loops[l].hasLifespan
           /\ status = "active"
           /\ resetIds = {} /\ resetting = << >>
           => \A id \in Ids : Outcome(id)'
       ]_vars

\* Job id of loop l's batch settles as a failure in this step.
FailsIn(l, id) ==
  /\ id \in loops[l].pending /\ id \notin loops'[l].pending
  /\ heap'[id].failedAttempts > heap[id].failedAttempts

\* Job id of loop l's batch settles as a success in this step.
SucceedsIn(l, id) ==
  /\ id \in loops[l].pending /\ id \notin loops'[l].pending
  /\ heap'[id].failedAttempts = heap[id].failedAttempts

\* C12: a failure of one job of a batch leaves the loop waiting for the other
\* jobs of the batch; the loop leaves its wait only when every job of the batch
\* has settled, and then for the next selection or the normal exit; and every
\* job that settles has its outcome applied: the record deleted on success, the
\* bookkeeping merged and saved on failure.
C12_FailureIsolation ==
  [][ \A l \in Loops :
        /\ \A id \in Ids :
             FailsIn(l, id) =>
               /\ loops'[l].pc = "wait"
               /\ loops'[l].pending = loops[l].pending \ {id}
               /\ id \in Range(items')
               /\ ~heap'[id].active
               /\ heap'[id].failedAttempts = heap[id].failedAttempts + 1
        /\ \A id \in Ids :
             SucceedsIn(l, id) =>
               /\ loops'[l].pc = "wait"
               /\ loops'[l].pending = loops[l].pending \ {id}
               /\ GetKey(heap, id) \notin Keys(heap', items')
        /\ loops[l].pc = "wait" /\ loops'[l].pc # "wait" =>
             /\ loops[l].pending = {}
             /\ \/ loops'[l].pc = "find"
                \/ loops'[l].pc = "idle" /\ status' = "inactive"
    ]_vars

\* One job of a batch of two has failed and the loop waits for the other.
C12_Witness ==
  \E l \in Loops :
    /\ loops[l].pc = "wait"
    /\ Len(loops[l].batch) = 2
    /\ Cardinality(loops[l].pending) = 1
    /\ \E id \in Range(loops[l].batch) \ loops[l].pending :
         heap[id].failedAttempts > 0 /\ id \in Stored

\* The program with every job created while no loop is running, so that
\* the jobs are stored before the loop that finds them starts.
NextStarve ==
  \/ /\ Running = {} /\ status = "inactive"
     /\ \E name \in Names, options \in JobOptions :
          CreateJob(name, 0, options, FALSE)
  \/ ResetFailedJobs
  \/ status = "inactive" /\ Start(FALSE, 0)
  \/ Stop
  \/ Run

SpecStarve == Init /\ [][NextStarve]_vars

\* Every job named like x has a higher priority than every job named like y.
Outranks(x, y) ==
  /\ heap[x].name # heap[y].name
  /\ \A x2, y2 \in Ids :
       heap[x2].name = heap[x].name /\ heap[y2].name = heap[y].name
         => heap[x2].priority > heap[y2].priority

\* Job id has reached a terminal outcome: deleted on success, or failed set.
TerminalOutcome(id) ==
  \/ id \in succeeded /\ GetKey(heap, id) \notin Keys(heap, items)
  \/ heap[id].failed # NullDate

\* C13: when every job named x outranks every job named y and all were stored
\* before the loop started, a job named y is handed to processJob only when
\* every job named x has reached a terminal outcome.
C13_HigherPriorityNameFirst ==
  [][ \A l \in Loops :
        DispatchStep(l) =>
          \A y \in loops'[l].pending :
            \A x \in Ids : Outranks(x, y) => TerminalOutcome(x)
    ]_vars

\* Where in the events e of a step the call ev for job id stands.
Places(e, ev, id) == { i \in 1..Len(e) : e[i].ev = ev /\ e[i].arg = id }

\* The call ev for job id is made exactly once in the events e.
Once(e, ev, id) == Cardinality(Places(e, ev, id)) = 1

\* In the events e every call a for job id comes before every call b for it.
InOrder(e, a, b, id) ==
  \A i \in Places(e, a, id), k \in Places(e, b, id) : i < k

\* An attempt that fails fires onFailure once, and onFailed and then
\* onComplete once each exactly if it exhausts the attempts.
FailureCallbacks ==
  \A l \in Loops, id \in Ids :
    FailsIn(l, id) =>
      /\ Once(events', "onFailure", id)
      /\ Places(events', "onSuccess", id) = {}
      /\ IF heap'[id].failedAttempts >= heap'[id].attempts
           THEN /\ Once(events', "onFailed", id)
                /\ Once(events', "onComplete", id)
                /\ InOrder(events', "onFailure", "onFailed", id)
                /\ InOrder(events', "onFailed", "onComplete", id)
           ELSE /\ Places(events', "onFailed", id) = {}
                /\ Places(events', "onComplete", id) = {}

\* A job that is terminally failed and was not reset has had onFailed and
\* onComplete once each and onSuccess never, and is in the store.
FailedOnce ==
  \A id \in Ids :
    heap[id].failed # NullDate /\ id \notin resetIds =>
      /\ fired[id].onFailed = 1
      /\ fired[id].onComplete = 1
      /\ fired[id].onSuccess = 0
      /\ id \in Stored

\* C14: every failed attempt fires onFailure once; onFailed and then onComplete
\* fire on it if and only if it exhausts the attempts; a job terminally failed
\* without a reset has had onFailed and onComplete exactly once, onSuccess
\* never, and its record stays in the store with failed set.
C14_FailureCallbacks == [][FailureCallbacks]_vars /\ []FailedOnce

\* C15: an attempt starts with onStart and then the handler's invocation,
\* once each; when its handler completes, the record is deleted, then onSuccess
\* and then onComplete fire, once each, and neither onFailure nor onFailed.
C15_SuccessPathOrder ==
  [][ \A l \in Loops, id \in Ids :
        /\ id \in loops'[l].pending \ loops[l].pending =>
             /\ DispatchStep(l)
             /\ Once(events', "onStart", id)
             /\ Once(events', "executeJob", id)
             /\ InOrder(events', "onStart", "executeJob", id)
        /\ SucceedsIn(l, id) =>
             /\ Once(events', "delete", id)
             /\ Once(events', "onSuccess", id)
             /\ Once(events', "onComplete", id)
             /\ InOrder(events', "delete", "onSuccess", id)
             /\ InOrder(events', "onSuccess", "onComplete", id)
             /\ Places(events', "onFailure", id) = {}
             /\ Places(events', "onFailed", id) = {}
             /\ GetKey(heap, id) \notin Keys(heap', items')
    ]_vars

\* The handler of a job of a batch of two has just completed, the other job
\* of the batch is still running.
C15_Witness ==
  \E l \in Loops, id \in Ids :
    /\ events # << >> /\ events[1] = [ev |-> "delete", arg |-> id]
    /\ id \in Range(loops[l].batch) \ loops[l].pending
    /\ loops[l].pending # {}
    /\ fired[id].onSuccess = 1

(***************************************************************************)
(* flushQueue.                                                             *)
(***************************************************************************)
\* The program with flushQueue() called at any time, with and without a name,
\* and without stop().
NextFlush ==
  \/ \E name \in Names, options \in JobOptions, startQueue \in BOOLEAN :
       CreateJob(name, 0, options, startQueue)
  \/ ResetFailedJobs
  \/ status = "inactive" /\ Start(FALSE, 0)
  \/ \E name \in Names \cup {""} : FlushQueue(name)
  \/ \E i \in 1..Len(flushing) : FlushDelete(i)
  \/ Run

SpecFlush == Init /\ [][NextFlush]_vars

\* A step is the call of flushQueue().
FlushCallStep == events' # << >> /\ events'[1].ev = "flushQueue"

\* A step is the deletion of the i-th waiting flushQueue().
FlushDeleteStep(i) ==
  /\ Len(flushing') = Len(flushing) - 1
  /\ events' = Called("flushed", flushing[i].name)
  /\ \A k \in 1..Len(flushing') :
       flushing'[k] = flushing[IF k < i THEN k ELSE k + 1]

\* The stored jobs of a name.
StoredNamed(h, its, name) == { id \in Range(its) : h[id].name = name }

\* C16: flushQueue(name) removes every job of that name that was stored when
\* it was called, and leaves every other stored job stored and unchanged;
\* flushQueue() removes every job that was stored when it was called, and
\* leaves the store empty when nothing was stored since; the queue's status
\* and its loops are as they were, whether the queue is active or not.
C16_FlushQueue ==
  [][ /\ FlushCallStep => UNCHANGED << status, loops, heap, items >>
      /\ \A i \in 1..Len(flushing) : FlushDeleteStep(i) =>
           LET f == flushing[i]
               flushed == IF f.name # ""
                            THEN StoredNamed(heap, f.jobs, f.name)
                            ELSE Range(f.jobs)
           IN  /\ \A id \in flushed : GetKey(heap, id) \notin Keys(heap', items')
               /\ Range(items) \subseteq Range(f.jobs) =>
                    IF f.name # "" THEN StoredNamed(heap', items', f.name) = {}
                    ELSE items' = << >>
               /\ f.name # "" =>
                    LET Other(id) == heap[id].name # f.name
                    IN  SelectSeq(items', Other) = SelectSeq(items, Other)
               /\ UNCHANGED << status, loops, heap >>
    ]_vars

\* flushQueue('a') has deleted a job 'a' that is being processed, in an active
\* queue that has a job 'b' stored.
C16_Witness ==
  /\ events = Called("flushed", "a")
  /\ status = "active"
  /\ StoredNamed(heap, items, "b") # {}
  /\ \E l \in Loops, id \in Ids :
       /\ id \in loops[l].pending
       /\ heap[id].name = "a"
       /\ id \notin Range(items)

(***************************************************************************)
(* createJob's arguments.                                                  *)
(***************************************************************************)
\* The values a caller passes for attempts and for timeout: negative, zero
\* and positive.
OptionValues == [ attempts |-> {-1, 0, 2}, timeout |-> {-1, 0, 1} ]

\* The options objects: either option may be left out; the priority is left
\* out, but for the options of JobOptions.
AnyOptions ==
  JobOptions \cup
  UNION { { o \in [S -> UNION { OptionValues[k] : k \in S }] :
              \A k \in S : o[k] \in OptionValues[k] } :
          S \in SUBSET DOMAIN OptionValues }

\* The program with createJob() called with the name of a worker or the
\* empty name, and any options; without stop().
NextCreate ==
  \/ \E name \in {"a", ""}, options \in AnyOptions, startQueue \in BOOLEAN :
       CreateJob(name, 0, options, startQueue)
  \/ ResetFailedJobs
  \/ status = "inactive" /\ Start(FALSE, 0)
  \/ Run

SpecCreate == Init /\ [][NextCreate]_vars

\* A step is a call of createJob().
CreateStep == events' # << >> /\ events'[1].ev = "createJob"

\* C17: the job createJob stores is inactive and not failed, has priority 0,
\* 1 attempt and timeout 25000 where the option is left out, and the timeout
\* passed where it is 0 or more; every job has 1 attempt or more and a
\* timeout of 0 or more.
C17_CreateJobDefaults ==
  /\ [][ CreateStep /\ ret' = "ok" =>
           LET o == events'[1].arg.options
               new == Len(heap')
               j == heap'[new]
           IN  /\ new = Len(heap) + 1
               /\ new \in Range(items')
               /\ j.name = events'[1].arg.name
               /\ j.active = FALSE
               /\ j.failed = NullDate
               /\ ~ Has(o, "priority") => j.priority = 0
               /\ ~ Has(o, "attempts") => j.attempts = 1
               /\ ~ Has(o, "timeout") => j.timeout = 25000
               /\ Has(o, "timeout") /\ o.timeout >= 0 => j.timeout = o.timeout
               /\ j.attempts >= 1
               /\ j.timeout >= 0
       ]_vars
  /\ [](\A id \in Ids : heap[id].attempts >= 1 /\ heap[id].timeout >= 0)

\* createJob() has stored a job for the options {attempts: 0, timeout: 0}.
C17_Witness ==
  /\ events # << >> /\ events[1].ev = "createJob" /\ ret = "ok"
  /\ LET o == events[1].arg.options
     IN  /\ DOMAIN o = {"attempts", "timeout"}
         /\ o.attempts = 0 /\ o.timeout = 0
  /\ heap[Len(heap)].timeout = 0
  /\ heap[Len(heap)].attempts = 1
  /\ heap[Len(heap)].priority = 0

\* C18: createJob() with an empty name, a negative timeout or negative
\* attempts throws and changes nothing: no job is stored, the status and the
\* loops are as they were, the flag executeFailedJobsOnStart is kept.
C18_InvalidCreateJobNoEffect ==
  [][ CreateStep =>
        LET name == events'[1].arg.name
            o == events'[1].arg.options
        IN  \/ name = ""
            \/ Has(o, "timeout") /\ o.timeout < 0
            \/ Has(o, "attempts") /\ o.attempts < 0
            => /\ ret' = "throw"
               /\ UNCHANGED stateVars
    ]_vars

\* createJob('a', {}, {timeout: -1}) has thrown in an active queue whose flag
\* executeFailedJobsOnStart is still set.
C18_Witness ==
  /\ events # << >> /\ events[1].ev = "createJob"
  /\ events[1].arg.name = "a"
  /\ events[1].arg.options = [timeout |-> -1]
  /\ ret = "throw"
  /\ executeFailedJobsOnStart
  /\ status = "active"

(***************************************************************************)
(* executeFailedJobsOnStart.                                               *)
(***************************************************************************)
\* When createJob() has stored its job, failed is cleared on the jobs that
\* were stored before, and the flag is consumed.
ClearedOnInsert ==
  CreateStep /\ ret' = "ok" /\ executeFailedJobsOnStart =>
    /\ \A id \in Range(items) : heap'[id].failed = NullDate
    /\ ~ executeFailedJobsOnStart'

\* The loop createJob() started makes its first selection with failed cleared
\* on the jobs the reset has read.
ClearedOnFirstSelection ==
  \A l \in Loops :
    loops[l].afterReset /\ loops'[l].pc = "mark" => resetting = << >>

\* The flag is not set again, and a createJob() that finds it consumed starts
\* no reset and clears nothing.
ClearedOnce ==
  /\ executeFailedJobsOnStart' => executeFailedJobsOnStart
  /\ CreateStep /\ ~ executeFailedJobsOnStart =>
       /\ resetting' = resetting
       /\ \A id \in Ids : heap'[id].failed = heap[id].failed

\* C19: with executeFailedJobsOnStart set, the first createJob() has failed
\* cleared on all stored jobs before its job is inserted and before the loop
\* it starts selects for the first time; the flag is consumed by that call
\* and no later createJob() clears a failed.
C19_ResetOnFirstCreateJob ==
  [][ClearedOnInsert /\ ClearedOnFirstSelection /\ ClearedOnce]_vars

(***************************************************************************)
(* failed, once set.                                                       *)
(***************************************************************************)
\* The program with createJob() called with payloads that have an id, the
\* id of a job created before, and payloads that have none; without stop().
NextPayloadId ==
  \/ \E name \in Names, payloadId \in 0..MaxJobs, options \in JobOptions,
        startQueue \in BOOLEAN :
       CreateJob(name, payloadId, options, startQueue)
  \/ ResetFailedJobs
  \/ status = "inactive" /\ Start(FALSE, 0)
  \/ Run

SpecPayloadId == Init /\ [][NextPayloadId]_vars

\* memoryStorage.get(key): the object stored under a key
StoredUnder(h, its, key) ==
  h[CHOOSE id \in Range(its) : GetKey(h, id) = key]

\* A step is resetFailedJobs() clearing the jobs it has read.
ResetStep == events' = Called("resetFailedJobs", 0)

\* C20: the job stored under an id, once its failed is set, has it set in
\* every later state it is stored in, until resetFailedJobs() clears it; no
\* other step sets it back to null.
C20_FailedStaysSet ==
  [][ \A key \in Keys(heap, items) \cap Keys(heap', items') :
        /\ StoredUnder(heap, items, key).failed # NullDate
        /\ StoredUnder(heap', items', key).failed = NullDate
        => ResetStep
    ]_vars

(***************************************************************************)
(* Workers added and removed.                                              *)
(***************************************************************************)
\* The concurrencies addWorker() is called with.
Concurrencies == {1, 2}

\* The program with addWorker() and removeWorker() called at any time;
\* without stop().
NextWorker ==
  \/ \E name \in Names, options \in JobOptions, startQueue \in BOOLEAN :
       CreateJob(name, 0, options, startQueue)
  \/ ResetFailedJobs
  \/ status = "inactive" /\ Start(FALSE, 0)
  \/ \E name \in Names, concurrency \in Concurrencies :
       AddWorker(name, concurrency)
  \/ \E name \in Names : RemoveWorker(name)
  \/ Run

SpecWorker == Init /\ [][NextWorker]_vars

\* The name has a worker.
Registered(name) == workers[name] # 0

\* C21: a batch is cut and marked active with no job whose name has no worker
\* (removed and not added again), and a batch comes out empty only if no job
\* that was read has a name with a worker.
C21_RemovedWorkerNotSelected ==
  [][ \A l \in Loops : SelectStep(l) =>
        /\ \A id \in Range(loops'[l].batch) : Registered(heap[id].name)
        /\ loops'[l].batch = << >> =>
             \A id \in Range(loops[l].jobs) : ~ Registered(heap[id].name)
    ]_vars

(***************************************************************************)
(* memoryStorage under its own callers: any keys and values.               *)
(***************************************************************************)
MaxPairs == 2        \* the pairs of a save(pairs), the keys of a get(keys)

\* The keys: strings that are not array indices, which an object lists in the
\* order of their insertion.
StorageKeys == {"a", "b", "c"}

\* The values: 0 is a value that is falsy, 1 and 2 are objects.
StorageValues == 0..2

NullValue == -1      \* null

Truthy(v) == v # 0

\* The variables of the queue.
queueVars ==
  << status, executeFailedJobsOnStart, workers, heap, items, resetting, loops,
     microtasks, now, runs, fired, succeeded, resetIds, flushing >>

\* Object.keys(memoryStorage.items)
KvKeys(s) == [i \in 1..Len(s) |-> s[i].key]

\* memoryStorage.items[key]; undefined is falsy as 0 is
KvAt(s, key) ==
  IF \E i \in 1..Len(s) : s[i].key = key
    THEN s[CHOOSE i \in 1..Len(s) : s[i].key = key].value
    ELSE 0

\* memoryStorage.items[key] = value
KvPut(s, key, value) ==
  IF \E i \in 1..Len(s) : s[i].key = key
    THEN [i \in 1..Len(s) |->
            IF s[i].key = key THEN [key |-> key, value |-> value] ELSE s[i]]
    ELSE Append(s, [key |-> key, value |-> value])

\* memoryStorage.save(pairs): the pairs in turn
RECURSIVE KvPutAll(_, _)
KvPutAll(s, pairs) ==
  IF pairs = << >> THEN s
  ELSE KvPutAll(KvPut(s, Head(pairs).key, Head(pairs).value), Tail(pairs))

\* delete memoryStorage.items[key]
KvRemove(s, key) == LET Keep(p) == p.key # key IN SelectSeq(s, Keep)

\* memoryStorage.get(key), one key
GetOne(s, key) == IF Truthy(KvAt(s, key)) THEN KvAt(s, key) ELSE NullValue

\* memoryStorage.get(keys), an array of keys
RECURSIVE GetList(_, _)
GetList(s, keys) ==
  IF keys = << >> THEN << >>
  ELSE (IF Truthy(KvAt(s, Head(keys))) THEN << KvAt(s, Head(keys)) >> ELSE << >>)
         \o GetList(s, Tail(keys))

\* The lists of keys of a call, and the lists of pairs, a key once in each.
KeyLists == UNION { [1..n -> StorageKeys] : n \in 0..MaxPairs }

PairLists ==
  UNION { { p \in [1..n -> [key : StorageKeys, value : StorageValues]] :
              \A i, j \in 1..n : i # j => p[i].key # p[j].key } :
          n \in 0..MaxPairs }

PairKeys(pairs) == [i \in 1..Len(pairs) |-> pairs[i].key]

PairValues(pairs) == [i \in 1..Len(pairs) |-> pairs[i].value]

MemorySave(key, value) ==
  /\ kv' = KvPut(kv, key, value)
  /\ ret' = value
  /\ events' = Called("save", [key |-> key, value |-> value])
  /\ UNCHANGED << queueVars, db >>

MemorySavePairs(pairs) ==
  /\ kv' = KvPutAll(kv, pairs)
  /\ ret' = << >>
  /\ events' = Called("savePairs", pairs)
  /\ UNCHANGED << queueVars, db >>

MemoryGet(key) ==
  /\ ret' = GetOne(kv, key)
  /\ events' = Called("get", key)
  /\ UNCHANGED << queueVars, kv, db >>

MemoryGetList(keys) ==
  /\ ret' = GetList(kv, keys)
  /\ events' = Called("getList", keys)
  /\ UNCHANGED << queueVars, kv, db >>

MemoryDelete(key) ==
  /\ kv' = KvRemove(kv, key)
  /\ ret' = TRUE
  /\ events' = Called("delete", key)
  /\ UNCHANGED << queueVars, db >>

MemoryGetKeys ==
  /\ ret' = KvKeys(kv)
  /\ events' = Called("getKeys", 0)
  /\ UNCHANGED << queueVars, kv, db >>

MemoryDeleteAll ==
  /\ kv' = << >>
  /\ ret' = "ok"
  /\ events' = Called("deleteAll", 0)
  /\ UNCHANGED << queueVars, db >>

NextStorage ==
  \/ \E key \in StorageKeys, value \in StorageValues : MemorySave(key, value)
  \/ \E pairs \in PairLists : MemorySavePairs(pairs)
  \/ \E key \in StorageKeys : MemoryGet(key)
  \/ \E keys \in KeyLists : MemoryGetList(keys)
  \/ \E key \in StorageKeys : MemoryDelete(key)
  \/ MemoryGetKeys
  \/ MemoryDeleteAll

SpecStorage == Init /\ [][NextStorage]_vars

\* The last call and the call of this step.
LastCall(ev) == events # << >> /\ events[1].ev = ev

ThisCall(ev) == events' # << >> /\ events'[1].ev = ev

\* C22: get(k) right after save(k, v) returns v; get(keys) right after a
\* save of pairs with those keys returns their values, in their order and as
\* many; delete(k) takes k out of getKeys() and leaves the other keys in
\* their order.
C22_StorageRoundTrip ==
  [][ /\ LastCall("save") /\ ThisCall("get")
         /\ events'[1].arg = events[1].arg.key
         => ret' = events[1].arg.value
      /\ LastCall("savePairs") /\ ThisCall("getList")
         /\ events'[1].arg = PairKeys(events[1].arg)
         => /\ ret' = PairValues(events[1].arg)
            /\ Len(ret') = Len(events'[1].arg)
      /\ ThisCall("delete") =>
           LET Other(k) == k # events'[1].arg
           IN  KvKeys(kv') = SelectSeq(KvKeys(kv), Other)
    ]_vars

(***************************************************************************)
(* The order of findNextJobs and of a batch.                               *)
(***************************************************************************)
StoredJobs == 3      \* the jobs the store holds when the queue is constructed

\* A job as createJob() has stored it, for the default attempts and timeout.
CreatedJob(key) ==
  [ id : {key}, name : Names, attempts : {DefaultAttempts},
    priority : {DefaultPriority, 5}, active : {FALSE},
    timeout : {DefaultTimeout}, created : 0..MaxTime, failed : {NullDate},
    failedAttempts : {0}, errors : {<< >>} ]

\* A queue constructed on a store that holds StoredJobs jobs, of any names
\* and priorities, stored in the order of their creation.
InitOrder ==
  /\ status = "inactive"
  /\ executeFailedJobsOnStart = FALSE
  /\ workers = [n \in Names |-> IF n = "a" THEN 2 ELSE 1]
  /\ heap \in { h \in [1..StoredJobs -> UNION { CreatedJob(k) : k \in 1..StoredJobs }] :
                  /\ \A k \in 1..StoredJobs : h[k].id = k
                  /\ \A k \in 1..(StoredJobs - 1) : h[k].created <= h[k + 1].created }
  /\ items = [k \in 1..StoredJobs |-> k]
  /\ runs = [k \in 1..StoredJobs |-> 0]
  /\ fired = [k \in 1..StoredJobs |-> NoneFired]
  /\ resetting = << >>
  /\ loops = [l \in Loops |-> IdleLoop]
  /\ microtasks = << >>
  /\ now = MaxTime
  /\ ret = "ok"
  /\ events = << >>
  /\ succeeded = {}
  /\ resetIds = {}
  /\ flushing = << >>
  /\ kv = << >>
  /\ db = << >>

\* start() is called whenever the queue is inactive.
NextBatches ==
  \/ status = "inactive" /\ Start(FALSE, 0)
  \/ Run

SpecBatches == InitOrder /\ [][NextBatches]_vars

\* The place of a job in a list of jobs.
PlaceIn(jobs, id) == CHOOSE i \in 1..Len(jobs) : jobs[i] = id

\* C23: findNextJobs returns the eligible jobs, each once, by priority
\* descending and, for a priority, by creation ascending; a batch keeps that
\* order and is dispatched in it; a job of a batch has with it, and before
\* it, every job of the list that has its name and priority and was created
\* earlier.
C23_OrderOfJobsAndBatches ==
  [][ \A l \in Loops :
        /\ ReadStep(l) =>
             LET jobs == loops'[l].jobs
             IN  /\ Range(jobs) = { id \in Ids : EligibleFor(l, id) }
                 /\ Cardinality(Range(jobs)) = Len(jobs)
                 /\ \A i, k \in 1..Len(jobs) : i < k =>
                      \/ heap[jobs[i]].priority > heap[jobs[k]].priority
                      \/ /\ heap[jobs[i]].priority = heap[jobs[k]].priority
                         /\ heap[jobs[i]].created <= heap[jobs[k]].created
        /\ SelectStep(l) =>
             LET jobs == loops[l].jobs
                 batch == loops'[l].batch
             IN  /\ Range(batch) \subseteq Range(jobs)
                 /\ \A i, k \in 1..Len(batch) : i < k =>
                      PlaceIn(jobs, batch[i]) < PlaceIn(jobs, batch[k])
                 /\ \A y \in Range(batch), x \in Range(jobs) :
                      /\ heap[x].name = heap[y].name
                      /\ heap[x].priority = heap[y].priority
                      /\ heap[x].created < heap[y].created
                      => /\ x \in Range(batch)
                         /\ PlaceIn(batch, x) < PlaceIn(batch, y)
        /\ DispatchStep(l) =>
             LET batch == loops[l].batch
             IN  \A i, k \in 1..Len(batch) : i < k =>
                   \A p \in Places(events', "executeJob", batch[i]),
                      q \in Places(events', "executeJob", batch[k]) : p < q
    ]_vars

\* A batch of two jobs 'a' of one priority is being dispatched, the job
\* created first at its head, while the store lists a job of a higher
\* priority, or of another name, before them.
C23_Witness ==
  \E l \in Loops :
    /\ loops[l].pc = "wait"
    /\ events # << >> /\ events[1].ev = "onStart"
    /\ Len(loops[l].batch) = 2
    /\ LET x == loops[l].batch[1]
           y == loops[l].batch[2]
       IN  /\ heap[x].priority = heap[y].priority
           /\ heap[x].created < heap[y].created
           /\ x > 1

\* The jobs of the list a batch was cut from that the batch leaves out.
LeftOut(jobs, batch) == Range(jobs) \ Range(batch)

\* C24 as claimed: every job of a batch has a priority at least that of every
\* eligible job the batch leaves out.
C24_BatchOutranksLeftOut ==
  [][ \A l \in Loops : SelectStep(l) =>
        \A y \in Range(loops'[l].batch),
           x \in LeftOut(loops[l].jobs, loops'[l].batch) :
          heap[y].priority >= heap[x].priority
    ]_vars

\* C24 as amended: the first job of a batch has a priority at least that of
\* every eligible job, and every job of a batch has a priority at least that
\* of every eligible job of its name the batch leaves out.
C24_BatchHeadOutranksAll ==
  [][ \A l \in Loops : SelectStep(l) /\ loops'[l].batch # << >> =>
        LET jobs == loops[l].jobs
            batch == loops'[l].batch
        IN  /\ \A x \in Range(jobs) :
                 heap[batch[1]].priority >= heap[x].priority
            /\ \A y \in Range(batch), x \in LeftOut(jobs, batch) :
                 heap[x].name = heap[y].name =>
                   heap[y].priority >= heap[x].priority
    ]_vars

\* A batch of two jobs 'a' has been marked while an eligible job 'b' is
\* stored whose priority is higher than that of the second job of the batch.
C24_Witness ==
  \E l \in Loops, x \in Ids :
    /\ loops[l].pc = "dispatch"
    /\ Len(loops[l].batch) = 2
    /\ heap[loops[l].batch[1]].name = "a"
    /\ x \in Stored /\ ~ heap[x].active /\ heap[x].failed = NullDate
    /\ heap[x].name = "b"
    /\ heap[x].priority > heap[loops[l].batch[2]].priority

(***************************************************************************)
(* The concurrency of a name, over time.                                   *)
(***************************************************************************)
\* The jobs of a name that are handed to their handler and not settled.
InFlight(name) ==
  { id \in Ids : heap[id].name = name /\ \E l \in Loops : id \in loops[l].pending }

\* C25: the jobs of a name that are in flight are never more than the
\* concurrency of the name's worker.
C25_ConcurrencyCap ==
  \A name \in Names :
    Cardinality(InFlight(name)) <= GetConcurrency(workers, name)

(***************************************************************************)
(* The bookkeeping of a failed attempt.                                    *)
(***************************************************************************)
\* An attempt of job id ends as a failure in this step: the job leaves the
\* pending jobs of a loop and the catch block of processJob() merges it.
FailedAttemptStep(id) ==
  /\ \E l \in Loops : id \in loops[l].pending /\ id \notin loops'[l].pending
  /\ events' # << >>
  /\ events'[1] = [ev |-> "merge", arg |-> id]

\* C26: a failed attempt adds one to the job's failedAttempts and one message
\* to its errors and stores the job with active false, and failed is set at
\* that attempt exactly when the new failedAttempts has reached attempts; no
\* step lowers the failedAttempts of a job or of the job stored under an id,
\* and every stored job has as many errors as failed attempts.
C26_FailureBookkeeping ==
  /\ [][ \A key \in Keys(heap, items) \cap Keys(heap', items') :
           StoredUnder(heap', items', key).failedAttempts
             >= StoredUnder(heap, items, key).failedAttempts
     ]_vars
  /\ [][ \A id \in Ids :
           /\ heap'[id].failedAttempts >= heap[id].failedAttempts
           /\ FailedAttemptStep(id) =>
                /\ heap'[id].failedAttempts = heap[id].failedAttempts + 1
                /\ Len(heap'[id].errors) = Len(heap[id].errors) + 1
                /\ id \in Range(items')
                /\ ~ heap'[id].active
                /\ IF heap'[id].failedAttempts >= heap'[id].attempts
                     THEN heap'[id].failed = now
                     ELSE heap'[id].failed = heap[id].failed
     ]_vars
  /\ [](\A id \in Stored : Len(heap[id].errors) = heap[id].failedAttempts)

(***************************************************************************)
(* A flush and the jobs in flight.                                         *)
(***************************************************************************)
\* The execution of job id by loop l settles in this step.
SettlesIn(l, id) == id \in loops[l].pending /\ id \notin loops'[l].pending

\* C27: a job that flushQueue has removed from the store while its execution
\* was in flight is not stored again when the execution settles: a settlement
\* of a job that is not in the store leaves no record of its id in the store.
C27_FlushedStaysRemoved ==
  [][ \A l \in Loops, id \in Ids :
        (SettlesIn(l, id) /\ GetKey(heap, id) \notin Keys(heap, items))
          => GetKey(heap, id) \notin Keys(heap', items')
    ]_vars

(***************************************************************************)
(* The active flag of the stored jobs.                                     *)
(***************************************************************************)
\* The jobs that are marked active for a processJob() execution that has not
\* settled.
Dispatched == UNION { Selected(l) : l \in Loops }

MaxDb == 3          \* the records this.db holds at most

\* The ids of the records and what tells two records of an id apart.
CachedIds == 1..2

Revisions == 0..1

\* A job record, and the string that is its id, as JavaScript values.
Obj(id, rev) == [type |-> "object", id |-> id, rev |-> rev]

Str(id) == [type |-> "string", s |-> id]

Objs == { Obj(id, rev) : id \in CachedIds, rev \in Revisions }

\* a === b: values of two types are never equal
StrictEquals(a, b) == a.type = b.type /\ a = b

\* create(obj): the loop that looks for obj.id in this.db
ShouldSkip(d, obj) == \E i \in 1..Len(d) : StrictEquals(d[i], Str(obj.id))

\* create(obj): if (!shouldSkip) this.db.push(obj)
CachedPush(d, obj) == IF ShouldSkip(d, obj) THEN d ELSE Append(d, obj)

\* save(obj): if (this.db[i] === obj.id) this.db[i] = obj, for every i
CachedPut(d, obj) ==
  [i \in 1..Len(d) |-> IF StrictEquals(d[i], Str(obj.id)) THEN obj ELSE d[i]]

\* delete(obj): this.db.filter(el => el.id !== obj.id)
CachedFilter(d, obj) ==
  LET Other(el) == el.id # obj.id IN SelectSeq(d, Other)

CachedCreate(obj) ==
  /\ Len(db) < MaxDb
  /\ db' = CachedPush(db, obj)
  /\ ret' = "ok"
  /\ events' = Called("create", obj)
  /\ UNCHANGED << queueVars, kv >>

CachedSave(obj) ==
  /\ db' = CachedPut(db, obj)
  /\ ret' = "ok"
  /\ events' = Called("save", obj)
  /\ UNCHANGED << queueVars, kv >>

CachedDelete(obj) ==
  /\ db' = CachedFilter(db, obj)
  /\ ret' = "ok"
  /\ events' = Called("delete", obj)
  /\ UNCHANGED << queueVars, kv >>

\* The calls of a CachedAsyncStorage that init() has restored from an empty
\* storage.
NextCached ==
  \/ \E obj \in Objs : CachedCreate(obj)
  \/ \E obj \in Objs : CachedSave(obj)
  \/ \E obj \in Objs : CachedDelete(obj)

SpecCached == Init /\ [][NextCached]_vars

\* The records of an id in the array.
WithId(d, id) == { i \in 1..Len(d) : d[i].id = id }

\* C29: create(obj) adds no record when one of the same id is stored, and
\* adds obj otherwise; save(obj) leaves obj as the record of its id when one
\* is stored; and the array never holds two records of one id.
C29_UniqueIdsUpsert ==
  /\ [][ \A obj \in Objs :
           /\ events' = Called("create", obj) =>
                IF WithId(db, obj.id) # {} THEN db' = db
                ELSE db' = Append(db, obj)
           /\ (events' = Called("save", obj) /\ WithId(db, obj.id) # {}) =>
                \A i \in WithId(db', obj.id) : db'[i] = obj
     ]_vars
  /\ [](\A id \in CachedIds : Cardinality(WithId(db, id)) <= 1)

=============================================================================
